---- MODULE Spec2Model ----
(***************************************************************************)
(* Model of the guarded upgrade workflow of the Slackware CLI manager:     *)
(* UpdaterComponent (src/components/updater.rs) driven by App              *)
(* (src/app.rs) from the host loop run_app (src/main.rs), and of the       *)
(* sbotools bootstrap, SbotoolsComponent (src/components/sbotools.rs).     *)
(*                                                                         *)
(* Each component is one record; its methods are operators from record to  *)
(* record.  Indices are 0-based as in the source: step i is steps[i + 1].  *)
(* Text is a sequence of lines, a line a sequence of words; a name         *)
(* fragment such as kernel-generic is one word, so that str::contains of a *)
(* fragment is the occurrence of that word in some line.                   *)
(***************************************************************************)
EXTENDS Integers, Sequences, FiniteSets, TLC

VARIABLES
    updater,            \* App.updater: UpdaterComponent
    running,            \* App.running
    current_tab,        \* App.current_tab
    show_exit_warning,  \* App.show_exit_warning
    fs,                 \* the paths Bootloader::detect finds on the machine
    pc,                 \* run_app: "poll", "exec" and "sbo_exec" (awaiting the executor
                        \* in run_update_step, in run_sbotools_step), "done", "panic"
    call,               \* the frame of run_update_step or run_sbotools_step awaiting
                        \* the executor, or <<>>
    issued,             \* history: step indices whose action was issued in this run
    results,            \* history: the results the executor returned in this run
    sbotools,           \* App.sbotools: SbotoolsComponent
    version_file,       \* /etc/slackware-version: whether it exists, its content
    slackware_version,  \* main's version, then App.slackware_version
    version_filter      \* MirrorComponent::load_mirrors: version_filter; None before the call

vars == <<updater, running, current_tab, show_exit_warning, fs, pc, call, issued, results,
          sbotools, version_file, slackware_version, version_filter>>

(***************************************************************************)
(* Bounds of the model                                                     *)
(***************************************************************************)
\* the longest stdout the executor returns has MaxLines lines
MaxLines == 11
\* the content of /etc/slackware-version is made of at most MaxPieces pieces
MaxPieces == 3

(***************************************************************************)
(* Program constants                                                       *)
(***************************************************************************)
\* result.stdout.lines().take(10)
DisplayLines == 10
\* run_sbotools_step: result.stdout.lines().take(5)
SboDisplayLines == 5
\* the bootloader step
LiloStep == 4
\* the upgrade-all step, whose output is scanned for kernel packages
UpgradeStep == 2
\* expected = ['S', 'K', 'I', 'P']
SkipLen == 4

None == "None"

Pending == [kind |-> "Pending", msg |-> ""]
Running == [kind |-> "Running", msg |-> ""]
Complete == [kind |-> "Complete", msg |-> ""]
Failed(m) == [kind |-> "Failed", msg |-> m]

\* UpdaterComponent::new / reset: the five steps, all Pending
NewSteps == [i \in 1..5 |-> Pending]

NumSteps == Len(NewSteps)

\* Bootloader::detect
detect(paths) ==
    IF "/etc/lilo.conf" \in paths THEN "Lilo"
    ELSE IF "/boot/grub/grub.cfg" \in paths \/ "/etc/default/grub" \in paths THEN "Grub"
    ELSE "Unknown"

\* UpdaterComponent::new
new(paths) ==
    [steps |-> NewSteps,
     current_step |-> 0,
     output_lines |-> <<>>,
     is_running |-> FALSE,
     show_lilo_confirm |-> FALSE,
     lilo_confirmed |-> FALSE,
     bootloader |-> detect(paths),
     kernel_updated |-> FALSE,
     skip_input |-> <<>>,
     lilo_skipped |-> FALSE,
     show_summary |-> FALSE]

\* reset that leaves the outcome of the last run in place
reset_KeepsOutcome(u, paths) ==
    [u EXCEPT !.steps = NewSteps,
              !.current_step = 0,
              !.output_lines = <<>>,
              !.is_running = FALSE,
              !.show_lilo_confirm = FALSE,
              !.lilo_confirmed = FALSE,
              !.skip_input = <<>>,
              !.show_summary = FALSE,
              !.bootloader = detect(paths)]

\* UpdaterComponent::reset
reset(u, paths) ==
    [u EXCEPT !.steps = NewSteps,
              !.current_step = 0,
              !.output_lines = <<>>,
              !.is_running = FALSE,
              !.show_lilo_confirm = FALSE,
              !.lilo_confirmed = FALSE,
              !.kernel_updated = FALSE,
              !.skip_input = <<>>,
              !.lilo_skipped = FALSE,
              !.show_summary = FALSE,
              !.bootloader = detect(paths)]

\* start_update that does not reset the updater first
start_update_NoReset(u, paths) == [u EXCEPT !.is_running = TRUE, !.steps[1] = Running]

\* UpdaterComponent::start_update
start_update(u, paths) ==
    LET r == reset(u, paths)
    IN [r EXCEPT !.is_running = TRUE, !.steps[1] = Running]

\* UpdaterComponent::add_output
add_output(u, line) == [u EXCEPT !.output_lines = Append(@, line)]

kernel_patterns ==
    {"kernel-generic", "kernel-huge", "kernel-modules",
     "kernel-source", "kernel-headers", "kernel-firmware"}

\* str::contains for a fragment
contains(output, p) ==
    \E i \in DOMAIN output : \E j \in DOMAIN output[i] : output[i][j] = p

\* UpdaterComponent::check_for_kernel_update
check_for_kernel_update(output) ==
    \E p \in kernel_patterns : contains(output, p)

KernelDetectedLine ==
    <<"*** KERNEL PACKAGES DETECTED - Bootloader update will be required ***">>

\* UpdaterComponent::set_kernel_updated
set_kernel_updated(u, updated) ==
    LET v == [u EXCEPT !.kernel_updated = updated]
    IN IF updated THEN add_output(v, KernelDetectedLine) ELSE v

\* UpdaterComponent::was_kernel_updated
was_kernel_updated(u) == u.kernel_updated

\* UpdaterComponent::was_lilo_skipped
was_lilo_skipped(u) == u.lilo_skipped

\* UpdaterComponent::needs_lilo_confirm
needs_lilo_confirm(u) == u.show_lilo_confirm

\* UpdaterComponent::is_showing_summary
is_showing_summary(u) == u.show_summary

\* UpdaterComponent::is_running
is_running(u) == u.is_running

GrubNote ==
    <<"GRUB detected - skipping LILO. Run 'grub-mkconfig -o /boot/grub/grub.cfg' if kernel was updated.">>

UnknownNote ==
    <<"WARNING: No bootloader configuration found. Update your bootloader manually if needed.">>

\* Option::unwrap_or_default
unwrap_or_default(error) == IF error = None THEN "" ELSE error

\* step_complete: the status the finished step gets
FinishedStatus(success, error) ==
    IF success THEN Complete ELSE Failed(unwrap_or_default(error))

\* AtBootloaderStep that asks for the confirmation whenever the bootloader is
\* not Grub, an unknown one included
AtBootloaderStep_UnknownGated(v) ==
    IF v.bootloader = "Grub" THEN
        [add_output([v EXCEPT !.steps[v.current_step + 1] = Complete], GrubNote)
            EXCEPT !.current_step = @ + 1,
                   !.is_running = FALSE,
                   !.show_summary = TRUE]
    ELSE IF ~v.lilo_confirmed THEN
        [v EXCEPT !.show_lilo_confirm = TRUE, !.skip_input = <<>>]
    ELSE
        [v EXCEPT !.steps[v.current_step + 1] = Running]

\* AtBootloaderStep that records the lilo step as skipped under Grub
AtBootloaderStep_GrubSkipped(v) ==
    IF v.bootloader = "Grub" THEN
        [add_output([v EXCEPT !.steps[v.current_step + 1] = Complete], GrubNote)
            EXCEPT !.current_step = @ + 1,
                   !.is_running = FALSE,
                   !.lilo_skipped = TRUE,
                   !.show_summary = TRUE]
    ELSE IF v.bootloader = "Unknown" THEN
        [add_output([v EXCEPT !.steps[v.current_step + 1] = Failed("No bootloader detected")],
                    UnknownNote)
            EXCEPT !.current_step = @ + 1,
                   !.is_running = FALSE,
                   !.show_summary = TRUE]
    ELSE IF ~v.lilo_confirmed THEN
        [v EXCEPT !.show_lilo_confirm = TRUE, !.skip_input = <<>>]
    ELSE
        [v EXCEPT !.steps[v.current_step + 1] = Running]

\* AtBootloaderStep that takes the confirmation for granted under Lilo
AtBootloaderStep_AutoConfirm(v) ==
    IF v.bootloader = "Grub" THEN
        [add_output([v EXCEPT !.steps[v.current_step + 1] = Complete], GrubNote)
            EXCEPT !.current_step = @ + 1,
                   !.is_running = FALSE,
                   !.show_summary = TRUE]
    ELSE IF v.bootloader = "Unknown" THEN
        [add_output([v EXCEPT !.steps[v.current_step + 1] = Failed("No bootloader detected")],
                    UnknownNote)
            EXCEPT !.current_step = @ + 1,
                   !.is_running = FALSE,
                   !.show_summary = TRUE]
    ELSE
        [v EXCEPT !.lilo_confirmed = TRUE, !.steps[v.current_step + 1] = Running]

\* AtBootloaderStep that leaves current_step at the bootloader step under Grub
AtBootloaderStep_GrubStays(v) ==
    IF v.bootloader = "Grub" THEN
        [add_output([v EXCEPT !.steps[v.current_step + 1] = Complete], GrubNote)
            EXCEPT !.is_running = FALSE,
                   !.show_summary = TRUE]
    ELSE IF v.bootloader = "Unknown" THEN
        [add_output([v EXCEPT !.steps[v.current_step + 1] = Failed("No bootloader detected")],
                    UnknownNote)
            EXCEPT !.current_step = @ + 1,
                   !.is_running = FALSE,
                   !.show_summary = TRUE]
    ELSE IF ~v.lilo_confirmed THEN
        [v EXCEPT !.show_lilo_confirm = TRUE, !.skip_input = <<>>]
    ELSE
        [v EXCEPT !.steps[v.current_step + 1] = Running]

\* AtBootloaderStep without the confirmation: lilo becomes Running at once
AtBootloaderStep_NoGate(v) ==
    IF v.bootloader = "Lilo" THEN [v EXCEPT !.steps[v.current_step + 1] = Running]
    ELSE [v EXCEPT !.current_step = @ + 1, !.is_running = FALSE, !.show_summary = TRUE]

\* step_complete: match self.bootloader, on arriving at the bootloader step
AtBootloaderStep(v) ==
    IF v.bootloader = "Grub" THEN
        [add_output([v EXCEPT !.steps[v.current_step + 1] = Complete], GrubNote)
            EXCEPT !.current_step = @ + 1,
                   !.is_running = FALSE,
                   !.show_summary = TRUE]
    ELSE IF v.bootloader = "Unknown" THEN
        [add_output([v EXCEPT !.steps[v.current_step + 1] = Failed("No bootloader detected")],
                    UnknownNote)
            EXCEPT !.current_step = @ + 1,
                   !.is_running = FALSE,
                   !.show_summary = TRUE]
    ELSE IF ~v.lilo_confirmed THEN
        [v EXCEPT !.show_lilo_confirm = TRUE, !.skip_input = <<>>]
    ELSE
        [v EXCEPT !.steps[v.current_step + 1] = Running]

\* step_complete that runs a failed step again
step_complete_RetriesFailed(u, success, error) ==
    IF u.current_step < NumSteps THEN
        IF ~success THEN [u EXCEPT !.steps[u.current_step + 1] = Running]
        ELSE LET v == [u EXCEPT !.steps[u.current_step + 1] = Complete,
                                !.current_step = @ + 1]
             IN IF v.current_step < NumSteps THEN
                    IF v.current_step = LiloStep THEN AtBootloaderStep(v)
                    ELSE [v EXCEPT !.steps[v.current_step + 1] = Running]
                ELSE [v EXCEPT !.is_running = FALSE, !.show_summary = TRUE]
    ELSE u

\* step_complete that does not end the run after the last step
step_complete_KeepsRunning(u, success, error) ==
    IF u.current_step < NumSteps THEN
        LET v == [u EXCEPT !.steps[u.current_step + 1] = FinishedStatus(success, error),
                           !.current_step = @ + 1]
        IN IF v.current_step < NumSteps THEN
               IF v.current_step = LiloStep THEN AtBootloaderStep(v)
               ELSE [v EXCEPT !.steps[v.current_step + 1] = Running]
           ELSE v
    ELSE u

\* UpdaterComponent::step_complete
step_complete(u, success, error) ==
    IF u.current_step < NumSteps THEN
        LET v == [u EXCEPT !.steps[u.current_step + 1] = FinishedStatus(success, error),
                           !.current_step = @ + 1]
        IN IF v.current_step < NumSteps THEN
               IF v.current_step = LiloStep THEN AtBootloaderStep(v)
               ELSE [v EXCEPT !.steps[v.current_step + 1] = Running]
           ELSE [v EXCEPT !.is_running = FALSE, !.show_summary = TRUE]
    ELSE u

\* confirm_lilo that leaves the dialog open on a decline
confirm_lilo_KeepsDialog(u, confirmed) ==
    LET v == [u EXCEPT !.lilo_confirmed = confirmed]
    IN IF confirmed THEN
           [v EXCEPT !.show_lilo_confirm = FALSE, !.steps[v.current_step + 1] = Running]
       ELSE
           [v EXCEPT !.lilo_skipped = TRUE,
                     !.steps[v.current_step + 1] =
                         IF v.kernel_updated THEN Failed("SKIPPED - KERNEL WAS UPDATED!")
                         ELSE Failed("Skipped by user"),
                     !.is_running = FALSE,
                     !.show_summary = TRUE]

\* UpdaterComponent::confirm_lilo; the caller has checked current_step < steps.len()
confirm_lilo(u, confirmed) ==
    LET v == [u EXCEPT !.show_lilo_confirm = FALSE, !.lilo_confirmed = confirmed]
    IN IF confirmed THEN
           [v EXCEPT !.steps[v.current_step + 1] = Running]
       ELSE
           [v EXCEPT !.lilo_skipped = TRUE,
                     !.steps[v.current_step + 1] =
                         IF v.kernel_updated THEN Failed("SKIPPED - KERNEL WAS UPDATED!")
                         ELSE Failed("Skipped by user"),
                     !.is_running = FALSE,
                     !.show_summary = TRUE]

\* dismiss_summary that forgets the skipped bootloader step
dismiss_summary_ClearsSkipped(u) == [u EXCEPT !.show_summary = FALSE, !.lilo_skipped = FALSE]

\* UpdaterComponent::dismiss_summary
dismiss_summary(u) == [u EXCEPT !.show_summary = FALSE]

\* UpdaterComponent::get_current_command
get_current_command(u) ==
    IF ~u.is_running THEN None
    ELSE IF u.current_step = 0 THEN "slackpkg update"
    ELSE IF u.current_step = 1 THEN "slackpkg install-new"
    ELSE IF u.current_step = 2 THEN "slackpkg upgrade-all"
    ELSE IF u.current_step = 3 THEN "slackpkg clean-system"
    ELSE IF u.current_step = 4 /\ u.lilo_confirmed THEN "lilo"
    ELSE None

(***************************************************************************)
(* Key events                                                              *)
(***************************************************************************)
Letters == {"c", "d", "i", "j", "k", "l", "n", "p", "q", "r", "s", "x", "y"}
Capitals == {"C", "D", "I", "J", "K", "L", "N", "P", "Q", "R", "S", "X", "Y"}

\* KeyCode::Char(c)
IsChar(code) == code \in Letters \cup Capitals

\* char::to_ascii_uppercase
to_ascii_uppercase(c) ==
    CASE c = "c" -> "C" [] c = "d" -> "D" [] c = "i" -> "I" [] c = "j" -> "J"
      [] c = "k" -> "K" [] c = "l" -> "L" [] c = "n" -> "N" [] c = "p" -> "P"
      [] c = "q" -> "Q" [] c = "r" -> "R" [] c = "s" -> "S" [] c = "x" -> "X"
      [] c = "y" -> "Y" [] OTHER -> c

Key(code) == [code |-> code, ctrl |-> FALSE, alt |-> FALSE]
Ctrl(code) == [code |-> code, ctrl |-> TRUE, alt |-> FALSE]
Alt(code) == [code |-> code, ctrl |-> FALSE, alt |-> TRUE]

\* let expected = ['S', 'K', 'I', 'P']
expected == <<"S", "K", "I", "P">>

\* String::pop
pop(str) == IF str = <<>> THEN str ELSE SubSeq(str, 1, Len(str) - 1)

\* what a handler hands back: the component, the message, whether it began afresh
Handled(u, msg, fresh) == [u |-> u, msg |-> msg, fresh |-> fresh]

\* TypeSkipChar that keeps what was typed on a wrong character
TypeSkipChar_NoReset(u, c) ==
    LET c_upper == to_ascii_uppercase(c)
        next_idx == Len(u.skip_input)
    IN IF next_idx < SkipLen /\ c_upper = expected[next_idx + 1] THEN
           LET v == [u EXCEPT !.skip_input = Append(@, c_upper)]
           IN IF v.skip_input = expected THEN confirm_lilo(v, FALSE) ELSE v
       ELSE u

\* handle_input, mandatory mode: KeyCode::Char(c) other than y/Y
TypeSkipChar(u, c) ==
    LET c_upper == to_ascii_uppercase(c)
        next_idx == Len(u.skip_input)
    IN IF next_idx < SkipLen /\ c_upper = expected[next_idx + 1] THEN
           LET v == [u EXCEPT !.skip_input = Append(@, c_upper)]
           IN IF v.skip_input = expected THEN confirm_lilo(v, FALSE) ELSE v
       ELSE [u EXCEPT !.skip_input = <<>>]

\* MandatoryInput that takes N and Esc as a decline, as the optional mode does
MandatoryInput_DeclineOnN(u, key) ==
    IF key.code \in {"y", "Y"} THEN Handled(confirm_lilo(u, TRUE), "ContinueUpdate", FALSE)
    ELSE IF key.code \in {"n", "N", "Esc"} THEN Handled(confirm_lilo(u, FALSE), None, FALSE)
    ELSE IF IsChar(key.code) THEN Handled(TypeSkipChar(u, key.code), None, FALSE)
    ELSE Handled(u, None, FALSE)

\* MandatoryInput in which Backspace clears all that was typed
MandatoryInput_BackspaceClears(u, key) ==
    IF key.code \in {"y", "Y"} THEN Handled(confirm_lilo(u, TRUE), "ContinueUpdate", FALSE)
    ELSE IF IsChar(key.code) THEN Handled(TypeSkipChar(u, key.code), None, FALSE)
    ELSE IF key.code \in {"Backspace", "Esc"} THEN
        Handled([u EXCEPT !.skip_input = <<>>], None, FALSE)
    ELSE Handled(u, None, FALSE)

\* handle_input while show_lilo_confirm, kernel_updated: Y or typing SKIP
MandatoryInput(u, key) ==
    IF key.code \in {"y", "Y"} THEN Handled(confirm_lilo(u, TRUE), "ContinueUpdate", FALSE)
    ELSE IF IsChar(key.code) THEN Handled(TypeSkipChar(u, key.code), None, FALSE)
    ELSE IF key.code = "Backspace" THEN
        Handled([u EXCEPT !.skip_input = pop(@)], None, FALSE)
    ELSE IF key.code = "Esc" THEN Handled([u EXCEPT !.skip_input = <<>>], None, FALSE)
    ELSE Handled(u, None, FALSE)

\* OptionalInput in which a negative answer is not taken
OptionalInput_IgnoresNo(u, key) ==
    IF key.code \in {"y", "Y"} THEN Handled(confirm_lilo(u, TRUE), "ContinueUpdate", FALSE)
    ELSE Handled(u, None, FALSE)

\* handle_input while show_lilo_confirm, no kernel update: Y/N
OptionalInput(u, key) ==
    IF key.code \in {"y", "Y"} THEN Handled(confirm_lilo(u, TRUE), "ContinueUpdate", FALSE)
    ELSE IF key.code \in {"n", "N", "Esc"} THEN Handled(confirm_lilo(u, FALSE), None, FALSE)
    ELSE Handled(u, None, FALSE)

\* <UpdaterComponent as Component>::handle_input
updater_handle_input(u, key, paths) ==
    IF u.show_summary THEN
        Handled(IF key.code = "Enter" THEN dismiss_summary(u) ELSE u, None, FALSE)
    ELSE IF u.show_lilo_confirm THEN
        IF u.kernel_updated THEN MandatoryInput(u, key) ELSE OptionalInput(u, key)
    ELSE IF key.code = "Enter" /\ ~u.is_running THEN
        Handled(start_update(u, paths), "StartUpdate", TRUE)
    ELSE IF key.code \in {"r", "R"} /\ ~u.is_running THEN
        Handled(reset(u, paths), None, TRUE)
    ELSE Handled(u, None, FALSE)

(***************************************************************************)
(* SbotoolsComponent (src/components/sbotools.rs)                          *)
(***************************************************************************)
\* SbotoolsComponent::new / reset: the six steps, all Pending
NewSboSteps == [i \in 1..6 |-> Pending]

NumSboSteps == Len(NewSboSteps)

\* SbotoolsComponent::new
sbo_new ==
    [steps |-> NewSboSteps,
     current_step |-> 0,
     output_lines |-> <<>>,
     is_running |-> FALSE]

\* SbotoolsComponent::reset
sbo_reset(b) ==
    [b EXCEPT !.steps = NewSboSteps,
              !.current_step = 0,
              !.output_lines = <<>>,
              !.is_running = FALSE]

\* SbotoolsComponent::start_install
sbo_start_install(b) ==
    [sbo_reset(b) EXCEPT !.is_running = TRUE, !.steps[1] = Running]

\* SbotoolsComponent::add_output
sbo_add_output(b, line) == [b EXCEPT !.output_lines = Append(@, line)]

\* SbotoolsComponent::step_complete that goes on after a failed step, as the
\* updater's does
sbo_step_complete_GoesOn(b, success, error) ==
    IF b.current_step < NumSboSteps THEN
        LET v == [b EXCEPT !.steps[b.current_step + 1] = FinishedStatus(success, error),
                           !.current_step = @ + 1]
        IN IF v.current_step < NumSboSteps
           THEN [v EXCEPT !.steps[v.current_step + 1] = Running]
           ELSE sbo_add_output([v EXCEPT !.is_running = FALSE],
                               <<"All steps completed successfully!">>)
    ELSE b

\* SbotoolsComponent::step_complete
sbo_step_complete(b, success, error) ==
    IF b.current_step < NumSboSteps THEN
        LET f == [b EXCEPT !.steps[b.current_step + 1] = FinishedStatus(success, error)]
        IN IF ~success THEN [f EXCEPT !.is_running = FALSE]
           ELSE LET v == [f EXCEPT !.current_step = @ + 1]
                IN IF v.current_step < NumSboSteps
                   THEN [v EXCEPT !.steps[v.current_step + 1] = Running]
                   ELSE sbo_add_output([v EXCEPT !.is_running = FALSE],
                                       <<"All steps completed successfully!">>)
    ELSE b

\* SbotoolsComponent::get_current_command
sbo_get_current_command(b) ==
    IF ~b.is_running THEN None
    ELSE IF b.current_step = 0 THEN "Download"
    ELSE IF b.current_step = 1 THEN "InstallPkg"
    ELSE IF b.current_step = 2 THEN "SbopkgSync"
    ELSE IF b.current_step = 3 THEN "SbopkgInstall"
    ELSE IF b.current_step = 4 THEN "SboconfigRepo"
    ELSE IF b.current_step = 5 THEN "SbosnapFetch"
    ELSE None

\* <SbotoolsComponent as Component>::handle_input
sbo_handle_input(b, key) ==
    IF key.code = "Enter" /\ ~b.is_running THEN
        Handled(sbo_start_install(b), "StartSbotoolsInstall", TRUE)
    ELSE IF key.code \in {"r", "R"} /\ ~b.is_running THEN
        Handled(sbo_reset(b), None, TRUE)
    ELSE Handled(b, None, FALSE)

(***************************************************************************)
(* Tabs                                                                    *)
(***************************************************************************)
\* Tab::all
AllTabs ==
    <<"Updater", "Sbotools", "UserSetup", "Mirror", "Packages", "Config",
      "SysInfo", "Services", "PackageBrowser", "Backup", "Network", "Logs",
      "Kernel", "Cron", "Disks", "Settings">>

TabIndex(tab) == CHOOSE i \in DOMAIN AllTabs : AllTabs[i] = tab

\* Tab::next
next(tab) == AllTabs[(TabIndex(tab) % Len(AllTabs)) + 1]

\* Tab::prev
prev(tab) == AllTabs[((TabIndex(tab) + Len(AllTabs) - 2) % Len(AllTabs)) + 1]

\* the tabs whose component takes F5 as refresh
RefreshTabs ==
    {"Services", "PackageBrowser", "Backup", "Network", "Logs", "Kernel", "Cron",
     "Disks", "SysInfo"}

(***************************************************************************)
(* App                                                                     *)
(***************************************************************************)
\* what App::handle_input leaves behind: updater, current_tab, show_exit_warning,
\* the message it returns, whether the updater began afresh, whether it panicked
AppHandled(u, tab, warn, msg, fresh) ==
    [u |-> u, tab |-> tab, warn |-> warn, msg |-> msg, fresh |-> fresh, panic |-> FALSE,
     delegated |-> FALSE]

\* App::delegate_to_component; a key for another tab is marked delegated, and
\* the host loop hands it to that tab's component (the Sbotools tab's is
\* modelled, the components of the remaining tabs keep no state of this model)
delegate_to_component(u, tab, key, paths) ==
    IF tab = "Updater" THEN
        LET h == updater_handle_input(u, key, paths)
        IN AppHandled(h.u, tab, FALSE, h.msg, h.fresh)
    ELSE [AppHandled(u, tab, FALSE, None, FALSE) EXCEPT !.delegated = TRUE]

\* App::handle_input: the exit warning dialog
ExitWarningInput(u, tab, key) ==
    IF key.code \in {"q", "Q"} THEN AppHandled(u, tab, FALSE, "Quit", FALSE)
    ELSE IF key.code \in {"l", "L"} THEN
        IF u.current_step < NumSteps
        THEN AppHandled(confirm_lilo(u, TRUE), "Updater", FALSE, "ContinueUpdate", FALSE)
        ELSE [AppHandled(u, "Updater", FALSE, None, FALSE) EXCEPT !.panic = TRUE]
    ELSE IF key.code = "Esc" THEN AppHandled(u, tab, FALSE, None, FALSE)
    ELSE AppHandled(u, tab, TRUE, None, FALSE)

\* QuitRequest without the check of the updater's outcome
QuitRequest_NoWarning(u, tab) == AppHandled(u, tab, FALSE, "Quit", FALSE)

\* App::handle_input: Ctrl+C / Ctrl+Q
QuitRequest(u, tab) ==
    IF was_lilo_skipped(u) /\ was_kernel_updated(u)
    THEN AppHandled(u, tab, TRUE, None, FALSE)
    ELSE AppHandled(u, tab, FALSE, "Quit", FALSE)

\* App::handle_input: tab navigation with function keys, then the current component
Navigate(u, tab, key, paths) ==
    CASE key.code = "F1" -> AppHandled(u, "Updater", FALSE, None, FALSE)
      [] key.code = "F2" -> AppHandled(u, "Sbotools", FALSE, None, FALSE)
      [] key.code = "F3" -> AppHandled(u, "UserSetup", FALSE, None, FALSE)
      [] key.code = "F4" -> AppHandled(u, "Mirror", FALSE, None, FALSE)
      [] key.code = "F5" ->
            IF tab \in RefreshTabs THEN delegate_to_component(u, tab, key, paths)
            ELSE AppHandled(u, "Packages", FALSE, None, FALSE)
      [] key.code = "F6" -> AppHandled(u, "Config", FALSE, None, FALSE)
      [] key.code = "F7" -> AppHandled(u, "SysInfo", FALSE, None, FALSE)
      [] key.code = "F8" -> AppHandled(u, "Services", FALSE, None, FALSE)
      [] key.code = "F9" -> AppHandled(u, "PackageBrowser", FALSE, None, FALSE)
      [] key.code = "F10" -> AppHandled(u, "Backup", FALSE, None, FALSE)
      [] key.code = "F11" -> AppHandled(u, "Network", FALSE, None, FALSE)
      [] key.code = "F12" -> AppHandled(u, "Logs", FALSE, None, FALSE)
      [] key.code = "Left" /\ key.alt -> AppHandled(u, prev(tab), FALSE, None, FALSE)
      [] key.code = "Right" /\ key.alt -> AppHandled(u, next(tab), FALSE, None, FALSE)
      [] OTHER -> delegate_to_component(u, tab, key, paths)

\* BelowGlobalKeys that never blocks the navigation
BelowGlobalKeys_NoBlock(u, tab, key, paths) == Navigate(u, tab, key, paths)

\* App::handle_input below the global keys
BelowGlobalKeys(u, tab, key, paths) ==
    IF is_running(u) \/ needs_lilo_confirm(u) \/ is_showing_summary(u) THEN
        IF tab = "Updater" THEN
            LET h == updater_handle_input(u, key, paths)
            IN AppHandled(h.u, tab, FALSE, h.msg, h.fresh)
        ELSE AppHandled(u, tab, FALSE, None, FALSE)
    ELSE Navigate(u, tab, key, paths)

\* App::handle_input
app_handle_input(u, tab, warn, key, paths) ==
    IF warn THEN ExitWarningInput(u, tab, key)
    ELSE IF key.ctrl /\ key.code \in {"c", "q"} THEN QuitRequest(u, tab)
    ELSE IF key.ctrl /\ key.code = "k" THEN AppHandled(u, "Kernel", FALSE, None, FALSE)
    ELSE IF key.ctrl /\ key.code = "j" THEN AppHandled(u, "Cron", FALSE, None, FALSE)
    ELSE IF key.ctrl /\ key.code = "d" THEN AppHandled(u, "Disks", FALSE, None, FALSE)
    ELSE IF key.ctrl /\ key.code = "s" THEN AppHandled(u, "Settings", FALSE, None, FALSE)
    ELSE BelowGlobalKeys(u, tab, key, paths)

(***************************************************************************)
(* The executor's results                                                  *)
(***************************************************************************)
PlainLine == <<"Upgrading", "bash", "-5.2.037">>
FragmentLine(f) == <<"Upgrading", f, "-6.12.1">>

\* the name fragments the sample outputs mention: a kernel package and a word
\* that is no kernel package
SampleFragments == {"kernel-generic", "kernel"}

Plain(n) == [i \in 1..n |-> PlainLine]

\* the numbers of plain lines before a fragment line: none, and those that put
\* the fragment at the end of the displayed prefix or after it
PlainCounts == {0} \cup ((DisplayLines - 1)..(MaxLines - 1))

\* the outputs the upgrade-all step may print
UpgradeStdouts ==
    {Plain(n) : n \in PlainCounts \cup {MaxLines}}
        \cup {Plain(n) \o <<FragmentLine(f)>> : n \in PlainCounts, f \in SampleFragments}

\* the outputs the other steps may print: clean-system, the step after
\* upgrade-all, may mention a kernel package too
OtherStdouts(step) ==
    IF step = UpgradeStep + 1 THEN {<<>>, <<FragmentLine("kernel-generic")>>} ELSE {<<>>}

Stderrs == {"slackpkg: command failed"}

\* CommandResult, for the command of a step
ResultsOf(step) ==
    [success : BOOLEAN,
     stdout : IF step = UpgradeStep THEN UpgradeStdouts ELSE OtherStdouts(step),
     stderr : Stderrs]

Min(a, b) == IF a < b THEN a ELSE b

\* Iterator::take over str::lines
take(lines, n) == SubSeq(lines, 1, Min(n, Len(lines)))

(***************************************************************************)
(* App::run_update_step                                                    *)
(***************************************************************************)
\* ScannedText taken from the lines kept for display
ScannedText_Displayed(result) == take(result.stdout, DisplayLines)

\* the text handed to check_for_kernel_update
ScannedText(result) == result.stdout

\* the detector run on the result of every successful step
DetectorRuns_EveryStep(current_step, result) == result.success

\* whether the detector runs on this result
DetectorRuns(current_step, result) == current_step = UpgradeStep /\ result.success

\* run_update_step from the executor's result to step_complete
AfterResult(u, current_step, result) ==
    LET shown == [u EXCEPT !.output_lines = @ \o take(result.stdout, DisplayLines)]
        scanned == IF DetectorRuns(current_step, result)
                   THEN set_kernel_updated(shown, check_for_kernel_update(ScannedText(result)))
                   ELSE shown
    IN step_complete(scanned, result.success,
                     IF result.success THEN None ELSE result.stderr)

\* run_update_step up to the executor call: the updater, the frame awaiting
\* the executor (none when there is no command)
Entered(u) ==
    LET command == get_current_command(u)
    IN IF command = None THEN [u |-> u, call |-> <<>>]
       ELSE [u |-> add_output(u, <<"Running:", command>>),
             call |-> <<[current_step |-> u.current_step, cmd |-> command]>>]

\* run_update_step: continue to the next step if not waiting for confirmation
Continues(u) == ~needs_lilo_confirm(u) /\ get_current_command(u) # None

\* run_sbotools_step: the line announcing the command
SboAnnounce(cmd) ==
    IF cmd = "Download" THEN <<"Downloading", "sbopkg-0.38.2-noarch-1_wsr.tgz...">>
    ELSE IF cmd = "InstallPkg" THEN <<"Installing", "/tmp/sbopkg-0.38.2-noarch-1_wsr.tgz...">>
    ELSE IF cmd = "SbopkgSync" THEN <<"Syncing", "sbopkg", "repository...">>
    ELSE IF cmd = "SbopkgInstall" THEN <<"Installing", "sbotools...">>
    ELSE IF cmd = "SboconfigRepo" THEN <<"Configuring", "repo:", "https://gitlab.com/SlackBuilds.org/slackbuilds.git">>
    ELSE <<"Fetching", "SlackBuilds", "snapshot...">>

\* run_sbotools_step up to the executor call
SboEntered(b) ==
    LET cmd == sbo_get_current_command(b)
    IN IF cmd = None THEN [b |-> b, call |-> <<>>]
       ELSE [b |-> sbo_add_output(b, SboAnnounce(cmd)),
             call |-> <<[current_step |-> b.current_step, cmd |-> cmd]>>]

\* run_sbotools_step from the executor's result to step_complete
SboAfterResult(b, result) ==
    LET shown == [b EXCEPT !.output_lines = @ \o take(result.stdout, SboDisplayLines)]
    IN sbo_step_complete(shown, result.success,
                         IF result.success THEN None ELSE result.stderr)

\* CommandResult, for the commands of the bootstrap
SboStderrs == {"", "installpkg: command failed"}

SboResults ==
    [success : BOOLEAN,
     stdout : {Plain(SboDisplayLines + 1)},
     stderr : SboStderrs]

(***************************************************************************)
(* SlackwareVersion (src/slackware/version.rs).  A string is a sequence of *)
(* characters here, so that trim, to_lowercase and contains work on it as  *)
(* they do on a str.                                                       *)
(***************************************************************************)
UpperCase == <<"A", "B", "C", "D", "E", "F", "G", "H", "I", "J", "K", "L", "M", "N", "O", "P", "Q", "R", "S", "T", "U", "V", "W", "X", "Y", "Z">>
LowerCase == <<"a", "b", "c", "d", "e", "f", "g", "h", "i", "j", "k", "l", "m", "n", "o", "p", "q", "r", "s", "t", "u", "v", "w", "x", "y", "z">>

\* char::to_lowercase, on ASCII
to_lowercase_char(c) ==
    IF \E n \in DOMAIN UpperCase : UpperCase[n] = c
    THEN LowerCase[CHOOSE n \in DOMAIN UpperCase : UpperCase[n] = c]
    ELSE c

\* str::to_lowercase
to_lowercase(str) == [n \in DOMAIN str |-> to_lowercase_char(str[n])]

\* char::is_whitespace
is_whitespace(c) == c \in {" ", "\n", "\t"}

\* str::trim
trim(str) ==
    LET inked == {n \in DOMAIN str : ~is_whitespace(str[n])}
    IN IF inked = {} THEN <<>>
       ELSE LET first == CHOOSE n \in inked : \A m \in inked : n <= m
                last == CHOOSE n \in inked : \A m \in inked : m <= n
            IN SubSeq(str, first, last)

\* str::contains for a str pattern
str_contains(str, pat) ==
    \E n \in 0..(Len(str) - Len(pat)) : SubSeq(str, n + 1, n + Len(pat)) = pat

current_marker == <<"c", "u", "r", "r", "e", "n", "t">>
v15_0_marker == <<"1", "5", ".", "0">>
v14_2_marker == <<"1", "4", ".", "2">>
v14_1_marker == <<"1", "4", ".", "1">>

\* SlackwareVersion: the supported versions, and Unknown(String)
Current == [kind |-> "Current", text |-> <<>>]
V15_0 == [kind |-> "V15_0", text |-> <<>>]
V14_2 == [kind |-> "V14_2", text |-> <<>>]
V14_1 == [kind |-> "V14_1", text |-> <<>>]
Unknown(text) == [kind |-> "Unknown", text |-> text]

\* from_string that looks for the markers in the text as it is
from_string_AsIs(version) ==
    IF str_contains(version, current_marker) THEN Current
    ELSE IF str_contains(version, v15_0_marker) THEN V15_0
    ELSE IF str_contains(version, v14_2_marker) THEN V14_2
    ELSE IF str_contains(version, v14_1_marker) THEN V14_1
    ELSE Unknown(version)

\* SlackwareVersion::from_string
from_string(version) ==
    LET v == to_lowercase(trim(version))
    IN IF str_contains(v, current_marker) THEN Current
       ELSE IF str_contains(v, v15_0_marker) THEN V15_0
       ELSE IF str_contains(v, v14_2_marker) THEN V14_2
       ELSE IF str_contains(v, v14_1_marker) THEN V14_1
       ELSE Unknown(v)

\* mirror_path that gives unknown versions a path of their own
mirror_path_UnknownApart(v) ==
    CASE v.kind = "Current" -> "slackware64-current"
      [] v.kind = "V15_0" -> "slackware64-15.0"
      [] v.kind = "V14_2" -> "slackware64-14.2"
      [] v.kind = "V14_1" -> "slackware64-14.1"
      [] OTHER -> "slackware64-unknown"

\* SlackwareVersion::mirror_path
mirror_path(v) ==
    CASE v.kind = "Current" -> "slackware64-current"
      [] v.kind = "V15_0" -> "slackware64-15.0"
      [] v.kind = "V14_2" -> "slackware64-14.2"
      [] v.kind = "V14_1" -> "slackware64-14.1"
      [] v.kind = "Unknown" -> "slackware64-current"

\* SlackwareVersion::all_versions
all_versions == <<Current, V15_0, V14_2, V14_1>>

\* main's version before detect_version() is called
Undetected == [kind |-> "Undetected", text |-> <<>>]

\* detect_version, and main's default when it fails for want of the file
detect_version(file) == IF ~file.exists THEN Current ELSE from_string(file.content)

\* the pieces a version file is made of
Pieces ==
    {<<"S", "l", "a", "c", "k", "w", "a", "r", "e">>, <<" ">>, <<"\n">>, <<"C", "u", "r", "r", "e", "n", "t">>, <<"c", "u", "r", "r", "e", "n", "t">>,
     <<"1", "5", ".", "0">>, <<"1", "4", ".", "2">>, <<"1", "4", ".", "1">>, <<"5", ".", "0">>, <<"+">>}

RECURSIVE Texts(_)
\* the texts of at most n pieces
Texts(n) ==
    IF n = 0 THEN {<<>>}
    ELSE Texts(n - 1) \cup {t \o piece : t \in Texts(n - 1), piece \in Pieces}

\* what /etc/slackware-version may be: a file of some content, or missing
VersionFiles ==
    {[exists |-> TRUE, content |-> t] : t \in Texts(MaxPieces)}
        \cup {[exists |-> FALSE, content |-> <<>>]}

\* the content of the file of a Slackware 15.0 installation
InstalledVersionText == <<"S", "l", "a", "c", "k", "w", "a", "r", "e", " ", "1", "5", ".", "0", "\n">>

(***************************************************************************)
(* The host loop                                                           *)
(***************************************************************************)
FsSamples ==
    {{},
     {"/etc/lilo.conf", "/boot/grub/grub.cfg"},
     {"/boot/grub/grub.cfg"},
     {"/etc/default/grub"}}

Keys ==
    {Key(c) : c \in {"y", "Y", "n", "N", "s", "K", "i", "p", "P", "x", "q", "l", "r",
                     "Enter", "Esc", "Backspace", "F1"}}
        \cup {Ctrl(c) : c \in {"q", "c", "k", "y"}}

\* App::new: the components
AppInit ==
    /\ updater = new(fs)
    /\ running = TRUE
    /\ current_tab = "Updater"
    /\ show_exit_warning = FALSE
    /\ pc = "poll"
    /\ call = <<>>
    /\ issued = <<>>
    /\ results = <<>>
    /\ sbotools = sbo_new

Init ==
    /\ fs \in FsSamples
    /\ AppInit
    /\ version_file = [exists |-> TRUE, content |-> InstalledVersionText]
    /\ slackware_version = detect_version(version_file)
    /\ version_filter = None

\* run_app: a key event is read; App::handle_input, then App::update on its message
KeyPressed(key) ==
    /\ pc = "poll"
    /\ LET h == app_handle_input(updater, current_tab, show_exit_warning, key, fs)
           runs == h.msg \in {"StartUpdate", "ContinueUpdate"}
           e == IF runs THEN Entered(h.u) ELSE [u |-> h.u, call |-> <<>>]
           kept == IF h.fresh THEN <<>> ELSE issued
           s == IF h.delegated /\ h.tab = "Sbotools"
                THEN sbo_handle_input(sbotools, key)
                ELSE Handled(sbotools, None, FALSE)
           be == IF s.msg = "StartSbotoolsInstall" THEN SboEntered(s.u)
                 ELSE [b |-> s.u, call |-> <<>>]
       IN /\ updater' = e.u
          /\ sbotools' = be.b
          /\ current_tab' = h.tab
          /\ show_exit_warning' = h.warn
          /\ running' = IF h.msg = "Quit" THEN FALSE ELSE running
          /\ call' = e.call \o be.call
          /\ pc' = IF h.panic THEN "panic"
                   ELSE IF h.msg = "Quit" THEN "done"
                   ELSE IF e.call # <<>> THEN "exec"
                   ELSE IF be.call # <<>> THEN "sbo_exec"
                   ELSE "poll"
          /\ issued' = IF e.call # <<>> THEN Append(kept, e.call[1].current_step) ELSE kept
          /\ results' = IF h.fresh THEN <<>> ELSE results
    /\ UNCHANGED <<fs, version_file, slackware_version, version_filter>>

\* run_update_step: the executor returns the result of the awaited command
ExecutorReturns(result) ==
    /\ pc = "exec"
    /\ LET frame == call[1]
           u == AfterResult(updater, frame.current_step, result)
           e == IF Continues(u) THEN Entered(u) ELSE [u |-> u, call |-> <<>>]
       IN /\ updater' = e.u
          /\ call' = e.call
          /\ pc' = IF e.call # <<>> THEN "exec" ELSE "poll"
          /\ issued' = IF e.call # <<>> THEN Append(issued, e.call[1].current_step)
                       ELSE issued
          /\ results' = Append(results, [step |-> frame.current_step,
                                         success |-> result.success,
                                         stdout |-> result.stdout])
    /\ UNCHANGED <<running, current_tab, show_exit_warning, fs, sbotools>>
    /\ UNCHANGED <<version_file, slackware_version, version_filter>>

\* run_sbotools_step: the executor returns the result of the awaited command
SboExecutorReturns(result) ==
    /\ pc = "sbo_exec"
    /\ LET b == SboAfterResult(sbotools, result)
           e == SboEntered(b)
       IN /\ sbotools' = e.b
          /\ call' = e.call
          /\ pc' = IF e.call # <<>> THEN "sbo_exec" ELSE "poll"
    /\ UNCHANGED <<updater, running, current_tab, show_exit_warning, fs, issued, results>>
    /\ UNCHANGED <<version_file, slackware_version, version_filter>>

\* run_app: one key event
KeyStep == \E key \in Keys : KeyPressed(key)

\* run_update_step: one result of the awaited command
ExecutorStep ==
    /\ pc = "exec"
    /\ \E result \in ResultsOf(call[1].current_step) : ExecutorReturns(result)

Next == KeyStep \/ ExecutorStep

Spec == Init /\ [][Next]_vars

\* the executor returns: Command::output() of a command that ends resolves, so
\* a step awaiting its result is eventually taken
LiveSpec == Spec /\ WF_vars(ExecutorStep)

(***************************************************************************)
(* The start of main: the version is detected from /etc/slackware-version, *)
(* and the mirror list is loaded for it.                                   *)
(***************************************************************************)
VersionInit ==
    /\ fs = {}
    /\ AppInit
    /\ version_file \in VersionFiles
    /\ slackware_version = Undetected
    /\ version_filter = None

\* main: detect_version(), Slackware Current when it fails
DetectVersion ==
    /\ slackware_version = Undetected
    /\ slackware_version' = detect_version(version_file)
    /\ UNCHANGED <<updater, running, current_tab, show_exit_warning, fs, pc, call, issued,
                   results, sbotools, version_file, version_filter>>

\* MirrorComponent::load_mirrors: the filter of the mirror list
LoadMirrors ==
    /\ slackware_version # Undetected
    /\ version_filter = None
    /\ version_filter' = mirror_path(slackware_version)
    /\ UNCHANGED <<updater, running, current_tab, show_exit_warning, fs, pc, call, issued,
                   results, sbotools, version_file, slackware_version>>

VersionNext == DetectVersion \/ LoadMirrors

VersionSpec == VersionInit /\ [][VersionNext]_vars

(***************************************************************************)
(* Both workflows: the upgrade and the sbotools bootstrap.  The keys reach *)
(* the Sbotools tab; of the upgrade's commands only the upgrade prints.    *)
(***************************************************************************)
EngineKeys ==
    {Key(c) : c \in {"y", "n", "l", "r", "s", "k", "i", "p", "Enter", "F1", "F2"}}
        \cup {Ctrl(c) : c \in {"q", "k"}}

EngineResults(step) ==
    [success : BOOLEAN,
     stdout : IF step = UpgradeStep THEN {<<>>, <<FragmentLine("kernel-generic")>>} ELSE {<<>>},
     stderr : Stderrs]

EngineKeyStep == \E key \in EngineKeys : KeyPressed(key)

EngineExecutorStep ==
    /\ pc = "exec"
    /\ \E result \in EngineResults(call[1].current_step) : ExecutorReturns(result)

\* run_sbotools_step: one result of the awaited command
SboExecutorStep ==
    /\ pc = "sbo_exec"
    /\ \E result \in SboResults : SboExecutorReturns(result)

EngineNext == EngineKeyStep \/ EngineExecutorStep \/ SboExecutorStep

EngineSpec == Init /\ [][EngineNext]_vars

(***************************************************************************)
(* Properties                                                              *)
(***************************************************************************)
StatusOf(u, i) == u.steps[i + 1]

AllComplete(u, from, to) == \A i \in from..to : StatusOf(u, i) = Complete

\* the gate is pending in mandatory mode / in optional mode
MandatoryPending(u) == needs_lilo_confirm(u) /\ u.kernel_updated
OptionalPending(u) == needs_lilo_confirm(u) /\ ~u.kernel_updated

\* the updater after the keys of `codes` were delivered to it one by one
RECURSIVE Typed(_, _)
Typed(u, codes) ==
    IF codes = <<>> THEN u
    ELSE Typed(updater_handle_input(u, Key(Head(codes)), fs).u, Tail(codes))

\* the gate was resolved as declined
Declined(u) ==
    /\ ~needs_lilo_confirm(u)
    /\ StatusOf(u, LiloStep).kind = "Failed"
    /\ u.lilo_skipped
    /\ ~u.is_running
    /\ get_current_command(u) = None

\* C1: if the action of step i reported success=false, step i is Failed,
\* current_step is still i, get_current_command() is None and no later step's
\* action was issued in this run.
C1_FailedStepHalts ==
    \A n \in DOMAIN results :
        ~results[n].success =>
            /\ StatusOf(updater, results[n].step).kind = "Failed"
            /\ updater.current_step = results[n].step
            /\ get_current_command(updater) = None
            /\ \A m \in DOMAIN issued : issued[m] <= results[n].step

\* C2: with bootloader Lilo and steps 0-2 Complete, the success of step 3 opens
\* the gate: needs_lilo_confirm() holds, get_current_command() is None, step 4
\* is not Running, and N is refused (mandatory) if kernel_updated and accepted
\* as a decline (optional) otherwise; while the gate is pending no command is
\* current or awaited.
C2_GateOpensAfterStep3 ==
    /\ [](needs_lilo_confirm(updater) =>
            /\ get_current_command(updater) = None
            /\ pc # "exec"
            /\ call = <<>>
            /\ StatusOf(updater, LiloStep).kind # "Running")
    /\ [][(/\ pc = "exec"
           /\ updater.current_step = 3
           /\ updater.bootloader = "Lilo"
           /\ AllComplete(updater', 0, 3))
          => (/\ needs_lilo_confirm(updater')
              /\ get_current_command(updater') = None
              /\ StatusOf(updater', LiloStep).kind # "Running"
              /\ call' = <<>>
              /\ LET n == updater_handle_input(updater', Key("n"), fs).u
                 IN IF updater'.kernel_updated
                    THEN needs_lilo_confirm(n) /\ ~n.lilo_skipped
                    ELSE Declined(n))]_vars

\* C2 witness: steps 0-3 Complete, the gate pending, the kernel updated
C2_Witness ==
    /\ AllComplete(updater, 0, 3)
    /\ MandatoryPending(updater)
    /\ updater.bootloader = "Lilo"
    /\ Len(results) = 4

\* C3: at a pending mandatory gate, S,K,I,X leaves skip_input empty and the
\* gate pending; S,K,I,P right after resolves it as declined, with lilo_skipped
\* and kernel_updated both true.
C3_SkipKeyword ==
    MandatoryPending(updater) =>
        LET wrong == Typed(updater, <<"S", "K", "I", "X">>)
            right == Typed(wrong, <<"S", "K", "I", "P">>)
        IN /\ wrong.skip_input = <<>>
           /\ MandatoryPending(wrong)
           /\ ~wrong.lilo_skipped
           /\ Declined(right)
           /\ right.kernel_updated

\* C3 witness: the gate was declined by typing the keyword after a kernel update
C3_Witness ==
    /\ updater.kernel_updated
    /\ updater.lilo_skipped
    /\ updater.skip_input = expected
    /\ StatusOf(updater, LiloStep) = Failed("SKIPPED - KERNEL WAS UPDATED!")

\* every single key event: each code alone, with Ctrl, with Alt
AllKeys ==
    LET codes == Letters \cup Capitals \cup
                 {"Enter", "Esc", "Backspace", "Left", "Right", "F1", "F2", "F5", "F12"}
    IN {Key(c) : c \in codes} \cup {Ctrl(c) : c \in codes} \cup {Alt(c) : c \in codes}

\* the key is Y/y, or it completes the keyword after S,K,I were matched
ResolvesMandatory(u, key) ==
    \/ key.code \in {"y", "Y"}
    \/ u.skip_input = <<"S", "K", "I">> /\ key.code \in {"p", "P"}

\* C4: while the mandatory gate is pending, a key delivered to the updater
\* resolves the gate only if it is Y/y or the character completing SKIP after
\* S,K,I; every other key (N, n, Esc, Enter, Backspace, ...) leaves the gate
\* pending and lilo_skipped false.
C4_OnlyAffirmOrKeyword ==
    MandatoryPending(updater) =>
        \A key \in AllKeys :
            LET h == updater_handle_input(updater, key, fs)
            IN IF ResolvesMandatory(updater, key)
               THEN ~needs_lilo_confirm(h.u)
               ELSE needs_lilo_confirm(h.u) /\ ~h.u.lilo_skipped /\ h.msg = None

\* C4 witness: the mandatory gate is pending with S,K,I typed
C4_Witness ==
    /\ MandatoryPending(updater)
    /\ updater.skip_input = <<"S", "K", "I">>
    /\ ~updater.lilo_skipped

\* C5: the detector is applied to the result of step 2 before the success /
\* failure branch: if step 2's stdout contains a kernel fragment, kernel_updated
\* is true once the step is advanced, also when the step reported success=false.
C5_DetectorBeforeBranch ==
    \A n \in DOMAIN results :
        (results[n].step = UpgradeStep /\ check_for_kernel_update(results[n].stdout))
            => updater.kernel_updated

MustWarn(u) == was_lilo_skipped(u) /\ was_kernel_updated(u)

\* C7: while lilo_skipped and kernel_updated are both true, Ctrl+Q / Ctrl+C
\* does not quit but shows the exit warning; running becomes false only from
\* the warning, on Q; Esc in the warning cancels and keeps the host running.
C7_ExitWarningInterposed ==
    [][MustWarn(updater) =>
        /\ \A key \in {Ctrl("q"), Ctrl("c")} :
               (~show_exit_warning /\ KeyPressed(key)) => (show_exit_warning' /\ running')
        /\ (running /\ ~running') =>
               (show_exit_warning /\ \E key \in Keys : key.code \in {"q", "Q"} /\ KeyPressed(key))
        /\ (show_exit_warning /\ KeyPressed(Key("Esc"))) => (running' /\ ~show_exit_warning')
      ]_vars

\* C7 witness: the exit warning shows after a quit request, the host still runs
C7_Witness ==
    /\ MustWarn(updater)
    /\ show_exit_warning
    /\ running

\* C8: whenever kernel_updated is true, the bootloader is Lilo and the lilo
\* step is not Complete (gate still pending, gate declined, lilo failed), the
\* host does not stop running unless the exit warning was showing.
C8_UnsafeExitBlocked ==
    [][(/\ updater.kernel_updated
        /\ updater.bootloader = "Lilo"
        /\ StatusOf(updater, LiloStep) # Complete
        /\ running
        /\ ~running')
       => show_exit_warning]_vars

\* C9: L in the exit warning runs lilo through the updater: the ContinueUpdate
\* message issues the lilo command, so that step 4 ends Complete or Failed by
\* its result and does not stay Running with nothing awaited.
C9_LiloRunsFromWarning ==
    [][(show_exit_warning /\ \E key \in {Key("l"), Key("L")} : KeyPressed(key))
       => (/\ pc' = "exec"
           /\ call' # <<>>
           /\ call'[1].cmd = "lilo"
           /\ call'[1].current_step = LiloStep)]_vars

\* C10: at a pending optional gate a negative input ends the run: step 4 is
\* Failed, is_running is false, lilo_skipped is true, kernel_updated is false,
\* and get_current_command() is None from then on.
C10_OptionalDecline ==
    /\ OptionalPending(updater) =>
           \A key \in {Key("n"), Key("N")} :
               LET h == updater_handle_input(updater, key, fs)
               IN Declined(h.u) /\ ~h.u.kernel_updated /\ h.msg = None
    /\ (updater.lilo_skipped /\ ~updater.kernel_updated) =>
           /\ StatusOf(updater, LiloStep) = Failed("Skipped by user")
           /\ ~updater.is_running
           /\ get_current_command(updater) = None
           /\ pc # "exec"
           /\ \A m \in DOMAIN issued : issued[m] < LiloStep

\* C10 witness: the optional gate was declined
C10_Witness ==
    /\ updater.lilo_skipped
    /\ ~updater.kernel_updated
    /\ updater.bootloader = "Lilo"
    /\ StatusOf(updater, LiloStep).kind = "Failed"
    /\ updater.show_summary

\* the steps whose action was issued in this run
IssuedSteps == {issued[m] : m \in DOMAIN issued}

\* a line was shown in the output pane
Shown(u, line) == \E n \in DOMAIN u.output_lines : u.output_lines[n] = line

\* the result of step 3 has just arrived: the run is at the bootloader step
ArrivesAtBootloaderStep == Len(results) = LiloStep - 1 /\ Len(results') = LiloStep

\* C11: with bootloader Unknown, arriving at the bootloader step marks step 4
\* Failed with a note, moves current_step to the sequence length and ends the
\* run with the summary shown; the gate is never pending, lilo_skipped is
\* never set and the lilo action is never issued.
C11_UnknownBootloader ==
    /\ [](updater.bootloader = "Unknown" =>
            /\ ~needs_lilo_confirm(updater)
            /\ ~updater.lilo_skipped
            /\ LiloStep \notin IssuedSteps
            /\ get_current_command(updater) # "lilo"
            /\ (Len(results) >= LiloStep =>
                  /\ StatusOf(updater, LiloStep) = Failed("No bootloader detected")
                  /\ Shown(updater, UnknownNote)
                  /\ updater.current_step = NumSteps
                  /\ ~is_running(updater)
                  /\ pc # "exec"))
    /\ [][(updater.bootloader = "Unknown" /\ ArrivesAtBootloaderStep)
            => is_showing_summary(updater')]_vars

\* C11 witness: no bootloader was detected and the run has ended at the
\* bootloader step after a kernel update
C11_Witness ==
    /\ updater.bootloader = "Unknown"
    /\ Len(results) = LiloStep
    /\ updater.kernel_updated
    /\ is_showing_summary(updater)
    /\ StatusOf(updater, LiloStep).kind = "Failed"

\* C12: with bootloader Grub, arriving at the bootloader step marks step 4
\* Complete with a note, moves current_step to the sequence length and ends
\* the run with the summary shown and lilo_skipped false, whether or not the
\* kernel was updated; the gate is never pending and lilo is never issued.
C12_GrubBootloader ==
    /\ [](updater.bootloader = "Grub" =>
            /\ ~needs_lilo_confirm(updater)
            /\ ~updater.lilo_skipped
            /\ LiloStep \notin IssuedSteps
            /\ get_current_command(updater) # "lilo"
            /\ (Len(results) >= LiloStep =>
                  /\ StatusOf(updater, LiloStep) = Complete
                  /\ Shown(updater, GrubNote)
                  /\ updater.current_step = NumSteps
                  /\ ~is_running(updater)
                  /\ pc # "exec"))
    /\ [][(updater.bootloader = "Grub" /\ ArrivesAtBootloaderStep)
            => is_showing_summary(updater')]_vars

\* C12 witness: under Grub the run has ended at the bootloader step after a
\* kernel update
C12_Witness ==
    /\ updater.bootloader = "Grub"
    /\ Len(results) = LiloStep
    /\ updater.kernel_updated
    /\ is_showing_summary(updater)
    /\ StatusOf(updater, LiloStep) = Complete

\* in this run the executor returned a result for each of the five steps in
\* order, all of them successes, the output of step 2 naming no kernel package
CleanLiloRun ==
    /\ updater.bootloader = "Lilo"
    /\ Len(results) = NumSteps
    /\ \A n \in DOMAIN results : results[n].step = n - 1 /\ results[n].success
    /\ ~check_for_kernel_update(results[UpgradeStep + 1].stdout)

\* C13: with bootloader Lilo, when steps 0-3 succeed with no kernel package
\* in the output of step 2, Y at the gate issues lilo, and when lilo succeeds
\* all five steps are Complete, current_step is the sequence length,
\* is_running is false, and lilo_skipped and kernel_updated are false.
C13_CleanRunCompletes ==
    /\ [](CleanLiloRun =>
            /\ AllComplete(updater, 0, NumSteps - 1)
            /\ updater.current_step = NumSteps
            /\ ~is_running(updater)
            /\ ~updater.lilo_skipped
            /\ ~updater.kernel_updated
            /\ get_current_command(updater) = None
            /\ pc # "exec")
    /\ [][(/\ OptionalPending(updater)
           /\ AllComplete(updater, 0, LiloStep - 1)
           /\ current_tab = "Updater"
           /\ ~show_exit_warning
           /\ KeyPressed(Key("y")))
          => (/\ pc' = "exec"
              /\ call'[1].cmd = "lilo"
              /\ StatusOf(updater', LiloStep) = Running
              /\ is_running(updater'))]_vars

\* C13 witness: the clean run has ended and its summary is shown
C13_Witness == CleanLiloRun /\ is_showing_summary(updater) /\ updater.lilo_confirmed

SboStatusOf(b, i) == b.steps[i + 1]

\* C15: in the bootstrap workflow, when the action of step i reports
\* success=false, step i becomes Failed with the action's stderr, current_step
\* stays i, is_running becomes false and get_current_command() is None: no
\* later step is issued, and the later steps stay Pending, for as long as the
\* step is Failed (until a new run or a reset).
C15_BootstrapHaltsOnFailure ==
    /\ [](\A i \in 0..(NumSboSteps - 1) :
            SboStatusOf(sbotools, i).kind = "Failed" =>
                /\ sbotools.current_step = i
                /\ ~sbotools.is_running
                /\ sbo_get_current_command(sbotools) = None
                /\ pc # "sbo_exec"
                /\ \A j \in (i + 1)..(NumSboSteps - 1) : SboStatusOf(sbotools, j) = Pending)
    /\ [][\A result \in SboResults :
            (~result.success /\ SboExecutorReturns(result)) =>
                LET i == sbotools.current_step
                IN /\ SboStatusOf(sbotools', i) = Failed(result.stderr)
                   /\ sbotools'.current_step = i
                   /\ ~sbotools'.is_running
                   /\ sbo_get_current_command(sbotools') = None
                   /\ call' = <<>>
                   /\ pc' = "poll"]_vars

\* C15 witness: the third step of the bootstrap failed after two successes
C15_Witness ==
    /\ SboStatusOf(sbotools, 0) = Complete
    /\ SboStatusOf(sbotools, 1) = Complete
    /\ SboStatusOf(sbotools, 2) = Failed("installpkg: command failed")
    /\ pc = "poll"

\* the step is the one in which start_update() or reset() began afresh
BeganAfresh ==
    \/ updater' = reset(updater, fs)
    \/ updater' = Entered(start_update(updater, fs)).u

\* C16: once kernel_updated is true, no step sets it back to false except
\* the one in which start_update() or reset() begins afresh: no later step
\* result, gate input, summary dismissal or exit-warning input does.
C16_KernelUpdatedSticks ==
    [][(updater.kernel_updated /\ ~updater'.kernel_updated) => BeganAfresh]_vars

\* C16 witness: the kernel was updated, and since then the gate was declined,
\* the summary dismissed and L chosen in the exit warning
C16_Witness ==
    /\ updater.kernel_updated
    /\ updater.lilo_skipped
    /\ updater.lilo_confirmed
    /\ ~is_showing_summary(updater)
    /\ Len(results) = LiloStep

\* the updater as a run is to begin: step 0 Running, everything else cleared
StartedAfresh(v) ==
    /\ v.steps = [i \in 1..NumSteps |-> IF i = 1 THEN Running ELSE Pending]
    /\ v.current_step = 0
    /\ is_running(v)
    /\ ~v.kernel_updated
    /\ ~v.lilo_skipped
    /\ ~v.lilo_confirmed
    /\ ~needs_lilo_confirm(v)
    /\ ~is_showing_summary(v)
    /\ v.skip_input = <<>>

\* C17: start_update(), from every reachable state, yields step 0 Running and
\* every other step Pending, current_step 0, is_running true, kernel_updated,
\* lilo_skipped and lilo_confirmed false, the gate not pending, the summary
\* not shown and skip_input empty; so does the Enter key that starts a run.
C17_StartUpdateResets ==
    /\ [](StartedAfresh(start_update(updater, fs)))
    /\ [][(/\ current_tab = "Updater"
           /\ ~show_exit_warning
           /\ ~is_running(updater)
           /\ ~needs_lilo_confirm(updater)
           /\ ~is_showing_summary(updater)
           /\ KeyPressed(Key("Enter")))
          => (StartedAfresh(updater') /\ pc' = "exec" /\ issued' = <<0>>)]_vars

\* C17 witness: a run can be started from a state in which every field that
\* start_update() resets is set: the gate was declined by the keyword after a
\* kernel update, the summary dismissed and L chosen in the exit warning
C17_Witness ==
    /\ current_tab = "Updater"
    /\ ~show_exit_warning
    /\ pc = "poll"
    /\ ~is_running(updater)
    /\ ~is_showing_summary(updater)
    /\ updater.kernel_updated
    /\ updater.lilo_skipped
    /\ updater.lilo_confirmed
    /\ updater.skip_input # <<>>
    /\ updater.current_step = LiloStep
    /\ StatusOf(updater, LiloStep) = Running

\* the outcome of the run: lilo_skipped or kernel_updated changes in the step
OutcomeChanges ==
    \/ updater'.lilo_skipped # updater.lilo_skipped
    \/ updater'.kernel_updated # updater.kernel_updated

\* C18 as stated: after a run has ended, lilo_skipped and kernel_updated
\* change only in the step that starts the next run with start_update().
C18_OnlyNewRunClears ==
    [][(~is_running(updater) /\ OutcomeChanges)
          => updater' = Entered(start_update(updater, fs)).u]_vars

\* C18 amended: after a run has ended, lilo_skipped and kernel_updated change
\* only in the step that starts the next run with start_update() or in which
\* the operator resets the updater with the R key (reset()); no other key
\* makes the exit-warning condition false.
C18_OutcomeKeptUntilFresh ==
    [][(~is_running(updater) /\ OutcomeChanges) => BeganAfresh]_vars

\* C18 witness: the run ended declined after a kernel update; the summary was
\* dismissed and the operator went to another tab, the outcome still standing
C18_Witness ==
    /\ MustWarn(updater)
    /\ ~is_running(updater)
    /\ ~is_showing_summary(updater)
    /\ ~show_exit_warning
    /\ current_tab = "Kernel"

\* C19: within a run, a step that is Complete or Failed keeps its status in
\* every step other than the one in which start_update() or reset() begins
\* afresh.
C19_FinishedStepsFrozen ==
    [][\A i \in 0..(NumSteps - 1) :
          (StatusOf(updater, i).kind \in {"Complete", "Failed"} /\ ~BeganAfresh)
              => StatusOf(updater', i) = StatusOf(updater, i)]_vars

\* current_step is the sequence length, or addresses a step that is Running
\* or Pending, no other step being Running
AddressesLiveStep(steps, current_step) ==
    \/ current_step = Len(steps)
    \/ /\ current_step < Len(steps)
       /\ steps[current_step + 1].kind \in {"Running", "Pending"}
       /\ \A j \in DOMAIN steps : j # current_step + 1 => steps[j].kind # "Running"

\* current_step addresses the Failed step at which the run stopped
AddressesStoppingStep(steps, current_step, is_run) ==
    /\ current_step < Len(steps)
    /\ steps[current_step + 1].kind = "Failed"
    /\ ~is_run
    /\ \A j \in DOMAIN steps : steps[j].kind # "Running"

\* C20 as stated: in both engines current_step is the sequence length or the
\* index of the sole Running (or Pending, about to run) step; it never
\* addresses a Complete or Failed step.
C20_CurrentStepLive ==
    /\ AddressesLiveStep(updater.steps, updater.current_step)
    /\ AddressesLiveStep(sbotools.steps, sbotools.current_step)

\* C20 amended: in both engines current_step is the sequence length, or the
\* index of the sole Running (or Pending, about to run) step, or the index of
\* the Failed step at which the run stopped (the failed step of the bootstrap,
\* the declined bootloader step); it never addresses a Complete step.
C20_CurrentStepLiveOrStopped ==
    /\ \/ AddressesLiveStep(updater.steps, updater.current_step)
       \/ AddressesStoppingStep(updater.steps, updater.current_step, updater.is_running)
    /\ \/ AddressesLiveStep(sbotools.steps, sbotools.current_step)
       \/ AddressesStoppingStep(sbotools.steps, sbotools.current_step, sbotools.is_running)

\* C20 witness: both engines have stopped at a Failed step, the bootstrap at
\* its failed third step and the upgrade at the declined bootloader step
C20_Witness ==
    /\ sbotools.current_step = 2
    /\ SboStatusOf(sbotools, 2).kind = "Failed"
    /\ updater.current_step = LiloStep
    /\ StatusOf(updater, LiloStep).kind = "Failed"
    /\ updater.lilo_skipped

\* str without its last character
AllButLast(str) == [n \in 1..(Len(str) - 1) |-> str[n]]

\* C21: at a pending mandatory gate Backspace removes exactly the last
\* character of skip_input (nothing when it is empty) and Esc empties it;
\* neither changes anything else of the updater (the gate stays pending, the
\* steps, current_step, lilo_skipped, kernel_updated and is_running stay),
\* sends a message or issues a command.
C21_BackspaceAndEsc ==
    /\ [](MandatoryPending(updater) =>
            LET b == updater_handle_input(updater, Key("Backspace"), fs)
                e == updater_handle_input(updater, Key("Esc"), fs)
            IN /\ b.u = [updater EXCEPT !.skip_input =
                            IF updater.skip_input = <<>> THEN <<>>
                            ELSE AllButLast(updater.skip_input)]
               /\ e.u = [updater EXCEPT !.skip_input = <<>>]
               /\ b.msg = None /\ e.msg = None
               /\ MandatoryPending(b.u) /\ MandatoryPending(e.u))
    /\ [][(/\ MandatoryPending(updater)
           /\ current_tab = "Updater"
           /\ ~show_exit_warning
           /\ (KeyPressed(Key("Backspace")) \/ KeyPressed(Key("Esc"))))
          => (/\ updater'.skip_input \in {<<>>, AllButLast(updater.skip_input)}
              /\ updater' = [updater EXCEPT !.skip_input = updater'.skip_input]
              /\ pc' = "poll"
              /\ call' = <<>>)]_vars

\* C21 witness: three characters of the keyword are typed at the pending
\* mandatory gate
C21_Witness ==
    /\ MandatoryPending(updater)
    /\ updater.skip_input = <<"S", "K", "I">>
    /\ current_tab = "Updater"
    /\ pc = "poll"

\* C22: the two engines never run at the same time: is_running is never
\* true of both; while a command of the bootstrap is awaited the upgrade is
\* neither running nor gated, and while a command of the upgrade is awaited
\* the bootstrap is not running; at most one command is awaited.
C22_EnginesExclusive ==
    /\ ~(is_running(updater) /\ sbotools.is_running)
    /\ (pc = "sbo_exec" =>
            /\ sbotools.is_running
            /\ ~is_running(updater)
            /\ ~needs_lilo_confirm(updater))
    /\ (pc = "exec" => is_running(updater) /\ ~sbotools.is_running)
    /\ (needs_lilo_confirm(updater) => ~sbotools.is_running)
    /\ Len(call) <= 1

\* C22 witness: a command of the bootstrap is awaited after an upgrade run
\* has ended
C22_Witness ==
    /\ pc = "sbo_exec"
    /\ call[1].cmd = "SbopkgSync"
    /\ updater.current_step = NumSteps
    /\ Len(results) >= LiloStep

\* C24: within a run the upgrade's actions are issued in strictly increasing
\* step order, and each only after the result of the one before was handed
\* to step_complete; the bootstrap's action is issued for step 0 by the key
\* that starts the run and otherwise for a later step on the result of the
\* one before; at most one action is awaited.
C24_IssuedInOrder ==
    /\ [](/\ \A m, n \in DOMAIN issued : m < n => issued[m] < issued[n]
          /\ Len(issued) = Len(results) + (IF pc = "exec" THEN 1 ELSE 0)
          /\ \A n \in DOMAIN results : results[n].step = issued[n]
          /\ Len(call) <= 1
          /\ (pc = "exec" => call # <<>> /\ call[1].current_step = issued[Len(issued)])
          /\ (pc = "sbo_exec" => call # <<>> /\ call[1].current_step = sbotools.current_step)
          /\ (pc \notin {"exec", "sbo_exec"} => call = <<>>))
    /\ [][(pc' = "sbo_exec" /\ sbotools' # sbotools)
          => \/ pc = "poll" /\ call'[1].current_step = 0
             \/ /\ pc = "sbo_exec"
                /\ call'[1].current_step > call[1].current_step
                /\ SboStatusOf(sbotools', call[1].current_step) = Complete]_vars

\* C24 witness: lilo, the fifth action of the upgrade run, is awaited after
\* a bootstrap run that issued all six of its actions
C24_Witness ==
    /\ issued = <<0, 1, 2, 3, 4>>
    /\ pc = "exec"
    /\ sbotools.current_step = NumSboSteps

\* the steps below current_step are finished, those above it Pending, and
\* only the step at current_step can be Running
WellFormed(steps, current_step) ==
    /\ current_step <= Len(steps)
    /\ \A j \in DOMAIN steps :
          /\ (j - 1 < current_step => steps[j].kind \in {"Complete", "Failed"})
          /\ (j - 1 > current_step => steps[j] = Pending)
          /\ (steps[j].kind = "Running" => j - 1 = current_step)

\* C29: in both engines current_step is at most the number of steps, every
\* step below current_step is Complete or Failed, every step above it is
\* Pending, and a Running step is the one at current_step.
C29_WellFormedSteps ==
    /\ WellFormed(updater.steps, updater.current_step)
    /\ WellFormed(sbotools.steps, sbotools.current_step)

\* C29 witness: the upgrade was declined at the bootloader step and L chosen
\* in the exit warning; the bootstrap stopped at its failed fourth step
C29_Witness ==
    /\ updater.current_step = LiloStep
    /\ StatusOf(updater, LiloStep) = Running
    /\ updater.lilo_skipped
    /\ sbotools.current_step = 3
    /\ SboStatusOf(sbotools, 3).kind = "Failed"

\* C23: while the action of a workflow step is in flight (its result not yet
\* delivered), the host loop can take a key event.
C23_LoopNotBlocked ==
    pc \in {"exec", "sbo_exec"} => ENABLED KeyStep

\* the run has ended and its summary is showing
Terminal == ~is_running(updater) /\ is_showing_summary(updater)

\* C25: a running upgrade always has a command awaited or the gate pending;
\* and if the gate never stays pending for ever (the operator answers it),
\* every running upgrade eventually reaches the terminal state: is_running
\* false and the summary showing.
C25_RunTerminates ==
    /\ [](is_running(updater) => pc = "exec" \/ needs_lilo_confirm(updater))
    /\ (([]<>~needs_lilo_confirm(updater)) => (is_running(updater) ~> Terminal))

\* C25 witness: the run ended after the mandatory gate was affirmed and lilo
\* returned
C25_Witness ==
    /\ Terminal
    /\ updater.kernel_updated
    /\ updater.lilo_confirmed
    /\ Len(results) = NumSteps

\* C28: while the updater is running, waiting at the gate or showing its
\* summary, current_tab is Updater.
C28_NavigationBlocked ==
    (is_running(updater) \/ needs_lilo_confirm(updater) \/ is_showing_summary(updater))
        => current_tab = "Updater"

\* C30: while the gate is pending, is_running is true, the summary is not
\* showing, the bootloader is Lilo, lilo_confirmed and lilo_skipped are false,
\* current_step is 4 with step 4 Pending, and skip_input is a proper prefix
\* of SKIP (at most 3 characters); skip_input never has more than 4
\* characters.
C30_GatePending ==
    /\ Len(updater.skip_input) <= SkipLen
    /\ (needs_lilo_confirm(updater) =>
            /\ is_running(updater)
            /\ ~is_showing_summary(updater)
            /\ updater.bootloader = "Lilo"
            /\ ~updater.lilo_confirmed
            /\ ~updater.lilo_skipped
            /\ updater.current_step = LiloStep
            /\ StatusOf(updater, LiloStep) = Pending
            /\ Len(updater.skip_input) <= SkipLen - 1
            /\ updater.skip_input = SubSeq(expected, 1, Len(updater.skip_input)))

\* C30 witness: the gate is pending after a kernel update with two
\* characters of the keyword typed
C30_Witness ==
    /\ needs_lilo_confirm(updater)
    /\ updater.kernel_updated
    /\ updater.skip_input = <<"S", "K">>

\* the markers in the order from_string looks for them, with their versions
Markers ==
    <<[marker |-> current_marker, version |-> Current],
      [marker |-> v15_0_marker, version |-> V15_0],
      [marker |-> v14_2_marker, version |-> V14_2],
      [marker |-> v14_1_marker, version |-> V14_1]>>

\* the version a normalized text stands for: that of the first marker, in
\* the order of Markers, which the text contains; Unknown(text) if none
Classified(text) ==
    LET found == {n \in DOMAIN Markers : str_contains(text, Markers[n].marker)}
    IN IF found = {} THEN Unknown(text)
       ELSE Markers[CHOOSE n \in found : \A m \in found : n <= m].version

\* C26: from_string classifies the trimmed, lower-cased text by the first
\* marker it contains in the order current, 15.0, 14.2, 14.1, and yields
\* Unknown with the normalized text when it contains none.
C26_FromString ==
    (slackware_version # Undetected /\ version_file.exists) =>
        LET normalized == to_lowercase(trim(version_file.content))
        IN /\ slackware_version = Classified(normalized)
           /\ from_string(version_file.content) = slackware_version

\* C26 witness: the text 14.15.0, which contains both 14.1 and 15.0, was
\* classified
C26_Witness ==
    /\ version_file.exists
    /\ version_file.content = v14_1_marker \o <<"5", ".", "0">>
    /\ slackware_version = V15_0

\* the path the claim gives a version
ClaimedPath(v) ==
    IF v.kind = "V15_0" THEN "slackware64-15.0"
    ELSE IF v.kind = "V14_2" THEN "slackware64-14.2"
    ELSE IF v.kind = "V14_1" THEN "slackware64-14.1"
    ELSE "slackware64-current"

\* C27: mirror_path maps Current, V15_0, V14_2 and V14_1 to
\* slackware64-current, -15.0, -14.2 and -14.1, four distinct paths, and
\* every Unknown version to the path of Current.
C27_MirrorPath ==
    /\ Cardinality({mirror_path(all_versions[n]) : n \in DOMAIN all_versions}) = 4
    /\ (slackware_version # Undetected =>
            /\ mirror_path(slackware_version) = ClaimedPath(slackware_version)
            /\ (slackware_version.kind = "Unknown" =>
                    mirror_path(slackware_version) = mirror_path(Current)))
    /\ (version_filter # None => version_filter = ClaimedPath(slackware_version))

\* C27 witness: the mirror list was loaded for an unknown version
C27_Witness ==
    /\ slackware_version.kind = "Unknown"
    /\ slackware_version.text # <<>>
    /\ version_filter = "slackware64-current"

============================================================================
